---- MODULE Spec2Model ----
(***************************************************************************)
(* Model of the JK BMS client core: the frame assembler                    *)
(* (JKBMS.handleNotification and its helpers), the command transmitter     *)
(* (JKBMS.sendCommand / constructCommandPayload), the device session       *)
(* (JKBMS.connect / disconnect / reset / registerActivity) and the         *)
(* response decoder (ResponseDecoder.decode).                              *)
(*                                                                         *)
(* Specifications: SpecFrame (notifications on a connected session),       *)
(* SpecCmd (sendCommand on a connected session), Spec (the session under   *)
(* any interleaving of calls and events), SpecApp (the session used by an  *)
(* application that awaits its calls, toggles included), SpecWatch (one    *)
(* connection with a clock and its inactivity watchdog), SpecData (one     *)
(* connection with a clock, records of both kinds and disconnects) and     *)
(* SpecDecode (decode applied to bounded response definitions).            *)
(*                                                                         *)
(* The protocol description (JKBMS_PROTOCOL, './config') is not among the  *)
(* sources; its shape is taken from the specification and its sizes are    *)
(* scaled down (ResponseLength, CommandLength).                            *)
(***************************************************************************)
EXTENDS Integers, Sequences, FiniteSets, Bags, TLC

VARIABLES
  status,             \* JKBMS.status
  deviceIdenticator,  \* JKBMS.deviceIdenticator
  cache,              \* JKBMS.cache
  characteristic,     \* JKBMS.characteristic
  bluetoothDevice,    \* JKBMS.bluetoothDevice
  inactivityTimeout,  \* JKBMS.inactivityTimeout (the watchdog timer handle)
  responseBuffer,     \* JKBMS.responseBuffer
  tasks,              \* the async calls in progress, each at its await
  leakedTimers,       \* whether command timeout timers of ended calls are pending
  transport,          \* the host's GATT stack as far as the session sees it
  now,                \* wall clock read by handleDecodedData
  ev,                 \* observer: the step taken last and the branch it took
  cb,                 \* observer: the consumer callbacks of the last step
  emitted,            \* observer: the onDataReceived call of the last step
  written,            \* observer: the characteristic write of the last step
  request,            \* observer: the arguments of the last sendCommand call
  delivery,           \* observer: the segment in delivery: the bytes not yet
                      \* fed and the onDataReceived calls since it began
  returned,           \* observer: the public call that resolved in the last step
  idle,               \* time since the watchdog timer was armed
  trace,              \* observer: callbacks, sendCommand calls and writes so far,
                      \* kept by the specifications that switch it on
  decoded             \* the last ResponseDecoder.decode call: its input and
                      \* the record it returned

session == <<status, deviceIdenticator, cache, characteristic, bluetoothDevice,
             inactivityTimeout, responseBuffer>>

vars == <<status, deviceIdenticator, cache, characteristic, bluetoothDevice,
          inactivityTimeout, responseBuffer, tasks, leakedTimers, transport, now,
          ev, cb, emitted, written, request, delivery, returned, idle, trace,
          decoded>>

\* ------------------------------------------------------------------ bounds

\* response.length of every response definition (300 on the device)
ResponseLength == 7
\* the longest response buffer the model lets accumulate
MaxBuffer == 9
\* protocol.commandLength (20 on the device)
CommandLength == 8
\* the longest payload handed to sendCommand
MaxPayload == 4
\* async calls in progress at a time
MaxTasks == 2
\* GATT connects in one run (each leaves a gattserverdisconnected listener)
MaxListeners == 1
\* calls the application makes in one run
MaxCalls == 2
\* protocol.inactivityTimeout, in ticks of the clock
InactivityTimeout == 2
\* the last tick of the clock
MaxNow == 4
\* the trace of the data dispatch holds so many entries before the last call
MaxLog == 4
\* the items of a response definition, and the bytes of one item
MaxItems == 3
ItemLength == 2

\* ---------------------------------------------------------------- encoding

\* null / undefined
NULL == "null"
\* null for a number (timeSinceLastOne)
NoNumber == -(1)

\* ---------------------------------------------------------------- protocol

\* protocol.segmentHeader: 0x55 0xAA 0xEB 0x90
segmentHeader == <<85, 170, 235, 144>>

\* protocol.responses: name/dataType, signature and length
responses ==
  << [dataType |-> "SETTINGS",  signature |-> <<1>>, length |-> ResponseLength],
     [dataType |-> "LIVE_DATA", signature |-> <<2>>, length |-> ResponseLength] >>

ResponseDataTypes == {responses[i].dataType : i \in 1..Len(responses)}

\* segment type bytes that no response definition has as signature
UnknownSegmentTypes == {4}

\* protocol.getResponseBySignature: matches on the first signature byte
getResponseBySignature(signature) ==
  LET hits == {i \in 1..Len(responses) : responses[i].signature[1] = signature[1]}
  IN  IF hits = {} THEN NULL ELSE responses[CHOOSE i \in hits : TRUE]

\* protocol.commandHeader: 0xAA 0x55 0x90 0xEB
commandHeader == <<170, 85, 144, 235>>

\* protocol.commandLength
commandLength == CommandLength

\* protocol.commands: name, code, timeout and post-send wait (ms)
commands ==
  << [name |-> "GET_SETTINGS",       code |-> <<150>>,    timeout |-> 1000, wait |-> 500],
     [name |-> "GET_DEVICE_INFO",    code |-> <<151>>,    timeout |-> 1000, wait |-> 500],
     [name |-> "TOGGLE_CHARGING",    code |-> <<29, 4>>,  timeout |-> 1000, wait |-> 500],
     [name |-> "TOGGLE_DISCHARGING", code |-> <<30, 4>>,  timeout |-> 1000, wait |-> 0] >>

JKBMS_COMMANDS == {commands[i].name : i \in 1..Len(commands)}

\* protocol.getCommandByName
getCommandByName(commandName) ==
  commands[CHOOSE i \in 1..Len(commands) : commands[i].name = commandName]

\* ------------------------------------------------------------ binary helpers

RECURSIVE SumBytes(_)
SumBytes(b) == IF b = <<>> THEN 0 ELSE b[1] + SumBytes(Tail(b))

\* sum & 0xff
calculateChecksum(byteArray) == SumBytes(byteArray) % 256

\* Uint8Array.slice(0, -1)
AllButLast(b) == IF Len(b) = 0 THEN <<>> ELSE SubSeq(b, 1, Len(b) - 1)

\* mutant: the transmitted checksum is not compared
isChecksumCorrect_unchecked(segment) == Len(segment) > 0

isChecksumCorrect(segment) ==
  /\ Len(segment) > 0
  /\ segment[Len(segment)] = calculateChecksum(AllButLast(segment))

\* mutant: only the length is looked at, not the header bytes
doesStartWithSegmentHeader_lengthOnly(buffer) ==
  Len(buffer) > Len(segmentHeader)

doesStartWithSegmentHeader(buffer) ==
  /\ Len(buffer) > Len(segmentHeader)
  /\ \A i \in 1..Len(segmentHeader) : segmentHeader[i] = buffer[i]

isSegmentComplete(segment, responseDefinition) ==
  IF ~doesStartWithSegmentHeader(segment) THEN FALSE
  ELSE IF Len(segment) = responseDefinition.length THEN TRUE
  ELSE IF Len(segment) > responseDefinition.length THEN TRUE
  ELSE FALSE

\* segment[this.protocol.segmentHeader.length]
getSegmentType(segment) == segment[Len(segmentHeader) + 1]

expectedSegments == {responses[i].signature[1] : i \in 1..Len(responses)}

\* new Uint8Array(n): n zero bytes
Zeros(n) == [i \in 1..n |-> 0]

\* a payload argument of sendCommand: undefined, or the bytes given
NoPayload == [given |-> FALSE, bytes |-> <<>>]
Payload(bytes) == [given |-> TRUE, bytes |-> bytes]

\* mutant: no overflow check, the buffer is silently cut to commandLength
constructCommandPayload_truncates(command, payload) ==
  LET template == Zeros(commandLength)
      tempBuffer == commandHeader \o command.code \o payload.bytes
      commandBuffer == SubSeq(tempBuffer \o template, 1, commandLength)
      checksum == calculateChecksum(AllButLast(commandBuffer))
  IN  [threw |-> FALSE,
       buffer |-> [commandBuffer EXCEPT ![Len(commandBuffer)] = checksum]]

\* constructCommandPayload: throws on overflow, else the command buffer
constructCommandPayload(command, payload) ==
  LET template == Zeros(commandLength)
      tempBuffer == commandHeader \o command.code \o payload.bytes
  IN  IF commandLength # 0 /\ Len(tempBuffer) > commandLength
      THEN [threw |-> TRUE, buffer |-> <<>>]
      ELSE
      LET commandBuffer == SubSeq(tempBuffer \o template, 1, commandLength)
          checksum == calculateChecksum(AllButLast(commandBuffer))
      IN  [threw |-> FALSE,
           buffer |-> [commandBuffer EXCEPT ![Len(commandBuffer)] = checksum]]

\* ------------------------------------------------------------------- state

EmptyRecord == [present |-> FALSE, timestamp |-> 0, timeSinceLastOne |-> NoNumber]
EmptyCache == [k \in ResponseDataTypes |-> EmptyRecord]
NoEmit == [kind |-> NULL, buffer |-> <<>>]
\* ev: what the last step ran of the frame assembler or of the command
\* transmitter, and the branch it took
Ev(op, arg) == [op |-> op, arg |-> arg]
NoEvent == Ev(NULL, NULL)
NoWrite == [buffer |-> <<>>, withResponse |-> FALSE]
NoRequest == [commandName |-> NULL, payload |-> [given |-> FALSE, bytes |-> <<>>]]
NoDelivery == [active |-> FALSE, pending |-> <<>>, emits |-> 0]
NoReturn == [call |-> NULL, value |-> NULL, at |-> NULL]
\* the trace records the entries whose names are in `on`
Tracing(names) == [on |-> names, log |-> <<>>]
TraceOff == Tracing({})

\* -------------------------------------------------------------- the decoder
\* ResponseDecoder.decode on the items of a response definition. JavaScript
\* values are records: `type` is the kind of value, `v` the content of a
\* number, string or boolean, `items` the elements of a Uint8Array or Array.

JSValue(type, v, items) == [type |-> type, v |-> v, items |-> items]
Number(n) == JSValue("number", n, <<>>)
Text(n) == JSValue("string", n, <<>>)
Boolean(b) == JSValue("boolean", IF b THEN 1 ELSE 0, <<>>)
Undefined == JSValue("undefined", 0, <<>>)
Uint8Array(bytes) == JSValue("Uint8Array", 0, [i \in 1..Len(bytes) |-> Number(bytes[i])])
Array(values) == JSValue("Array", 0, values)
\* the key is not an own property of the record
Absent == JSValue("absent", 0, <<>>)

\* typeof x, and whether typeof x.length is not 'undefined'
typeof(x) == IF x.type \in {"Uint8Array", "Array"} THEN "object" ELSE x.type
hasLength(x) == x.type \in {"Uint8Array", "Array", "string"}

\* the keys of the items of a response definition
ItemKeys == {"voltage", "name"}
\* the item variants: numeric, text, boolean, raw bytes, raw with a getter
ItemVariants == {"numeric", "text", "boolean", "raw", "getter"}

\* responseBuffer.slice(offset, offset + byteLength)
slice(segment, offset, byteLength) ==
  SubSeq(segment, offset + 1,
         IF offset + byteLength < Len(segment) THEN offset + byteLength ELSE Len(segment))

\* the bytes of an item read as one big-endian unsigned number
RECURSIVE BigEndian(_)
BigEndian(buffer) ==
  IF buffer = <<>> THEN 0
  ELSE BigEndian(AllButLast(buffer)) * 256 + buffer[Len(buffer)]

\* dataItem.getterFunction of a raw item: the numbers of the item, as an Array
getterFunction(itemBuffer) ==
  Array([i \in 1..Len(itemBuffer) |-> Number(itemBuffer[i])])

\* decode, lines 157-293: the value of one item
itemValue(dataItem, buffer) ==
  CASE dataItem.type = "raw" ->
         IF dataItem.getterFunction THEN getterFunction(buffer) ELSE Uint8Array(buffer)
    [] dataItem.type = "text" -> Text(BigEndian(buffer))
    [] dataItem.type = "numeric" -> Number(BigEndian(buffer))
    [] dataItem.type = "boolean" -> Boolean(\E i \in 1..Len(buffer) : buffer[i] > 0)
    [] OTHER -> Undefined

\* decode, lines 297-324: the value is stored under the key of the item; a
\* key that is there already gets a pair of the value it had and the new
\* one, unless the value it had is an object with a length, which is spread
put(decodedDataAcc, dataItem, value) ==
  LET existingValue == decodedDataAcc[dataItem.key]
      doesValueAlreadyExist == existingValue # Absent
      stored ==
        IF ~doesValueAlreadyExist THEN value
        ELSE IF \/ typeof(existingValue) = "object" /\ ~hasLength(existingValue)
                \/ typeof(existingValue) # "object"
        THEN Array(<<existingValue, value>>)
        ELSE Array(existingValue.items \o <<value>>)
  IN  [decodedDataAcc EXCEPT ![dataItem.key] = stored]

\* decode, lines 146-335: the loop over the items of the definition
RECURSIVE decodeItems(_, _, _)
decodeItems(items, segment, decodedDataAcc) ==
  IF items = <<>> THEN decodedDataAcc
  ELSE LET dataItem == Head(items)
           buffer == slice(segment, dataItem.offset, dataItem.byteLength)
       IN  decodeItems(Tail(items), segment,
                       put(decodedDataAcc, dataItem, itemValue(dataItem, buffer)))

decode(items, segment) == decodeItems(items, segment, [k \in ItemKeys |-> Absent])

\* no decode call yet
NoDecode ==
  [items |-> <<>>, segment |-> <<>>, result |-> [k \in ItemKeys |-> Absent],
   done |-> FALSE]

\* this.responseBuffer = new Uint8Array([])
flushResponseBuffer == <<>>

\* registerActivity: clear the timer if one is set, then arm a fresh one
registerActivity == "armed"

\* mutant: the time is taken since the latest record of any kind
handleDecodedData_anyKind(dataType) ==
  LET last == CHOOSE t \in {cache[k].timestamp : k \in ResponseDataTypes} :
                \A k \in ResponseDataTypes : cache[k].timestamp <= t
  IN  [present |-> TRUE, timestamp |-> now,
       timeSinceLastOne |-> IF last # 0 THEN now - last ELSE NoNumber]

\* handleDecodedData: the record stored under cache[dataType]
handleDecodedData(dataType) ==
  LET lastData == cache[dataType]
      timeSinceLastOne ==
        IF lastData.present /\ lastData.timestamp # 0
        THEN now - lastData.timestamp ELSE NoNumber
  IN  [present |-> TRUE, timestamp |-> now, timeSinceLastOne |-> timeSinceLastOne]

\* this.callbacks.onDataReceived(dataType, publicData), as the trace records
\* it: the kind, and the timestamp and timeSinceLastOne of the record
dataReceived(dataType) ==
  LET publicData == handleDecodedData(dataType)
  IN  [name |-> "onDataReceived", arg |-> dataType,
       bytes |-> <<publicData.timestamp, publicData.timeSinceLastOne>>]

\* mutant: an orphan fragment is appended before the handler returns
takeIn_keepsOrphan(valueArray) ==
  IF doesStartWithSegmentHeader(valueArray)
  THEN [buffer |-> valueArray, dropped |-> FALSE]
  ELSE IF doesStartWithSegmentHeader(responseBuffer)
  THEN [buffer |-> responseBuffer \o valueArray, dropped |-> FALSE]
  ELSE [buffer |-> responseBuffer \o valueArray, dropped |-> TRUE]

\* handleNotification, lines 889-912: the fragment seeds the buffer, is
\* appended to it, or is dropped
takeIn(valueArray) ==
  IF doesStartWithSegmentHeader(valueArray)
  THEN [buffer |-> valueArray, dropped |-> FALSE]
  ELSE IF doesStartWithSegmentHeader(responseBuffer)
  THEN [buffer |-> responseBuffer \o valueArray, dropped |-> FALSE]
  ELSE [buffer |-> responseBuffer, dropped |-> TRUE]

\* handleNotification, lines 914-962, on the buffer the fragment was taken
\* into: the buffer left, the branch taken and the emission. decodeOk is
\* whether decoder.decode returns; when it throws the catch of line 953
\* returns without flushing
finishSegment(buffer, decodeOk) ==
  LET segmentType == getSegmentType(buffer) IN
  IF segmentType \notin expectedSegments
  THEN [buffer |-> buffer, branch |-> "unexpectedType", emit |-> NoEmit]
  ELSE
  LET responseDefinition == getResponseBySignature(<<segmentType>>) IN
  IF ~isSegmentComplete(buffer, responseDefinition)
  THEN [buffer |-> buffer, branch |-> "incomplete", emit |-> NoEmit]
  ELSE IF ~isChecksumCorrect(buffer)
  THEN [buffer |-> flushResponseBuffer, branch |-> "corrupted", emit |-> NoEmit]
  ELSE IF decodeOk
  THEN [buffer |-> flushResponseBuffer, branch |-> "decoded",
        emit |-> [kind |-> responseDefinition.dataType, buffer |-> buffer]]
  ELSE [buffer |-> buffer, branch |-> "decodeFailed", emit |-> NoEmit]

\* handleNotification for a non-empty notification value
Assemble(valueArray, decodeOk) ==
  LET taken == takeIn(valueArray) IN
  IF taken.dropped
  THEN [buffer |-> taken.buffer, branch |-> "orphan", emit |-> NoEmit]
  ELSE finishSegment(taken.buffer, decodeOk)

\* ------------------------------------------------------- notification input

\* payload bytes of the segments on the wire
DataBytes == {200}

RECURSIVE SeqsOf(_, _)
SeqsOf(S, n) ==
  IF n = 0 THEN {<<>>}
  ELSE {<<x>> \o t : x \in S, t \in SeqsOf(S, n - 1)}

\* a segment as the device sends it: header, type byte, data, checksum
WireSegment(type, data) ==
  LET body == segmentHeader \o <<type>> \o data
  IN  body \o <<calculateChecksum(body)>>

\* the same segment with its last byte flipped by one bit
Corrupted(segment) ==
  LET last == segment[Len(segment)]
  IN  AllButLast(segment) \o <<IF last % 2 = 0 THEN last + 1 ELSE last - 1>>

DataLength == ResponseLength - Len(segmentHeader) - 2

\* complete, checksum-correct segments of the known response kinds
GoodSegments ==
  {WireSegment(t, d) : t \in expectedSegments, d \in SeqsOf(DataBytes, DataLength)}

WireSegments ==
  GoodSegments
    \cup {Corrupted(s) : s \in GoodSegments}
    \cup {WireSegment(t, d) : t \in UnknownSegmentTypes, d \in SeqsOf(DataBytes, DataLength)}

\* notification values: every contiguous piece of a wire segment, and the
\* empty notification
Fragments ==
  {SubSeq(s, i, j) : s \in WireSegments, i \in 1..ResponseLength, j \in 0..ResponseLength}

\* a byte sequence begins with the segment header (the plain meaning)
BeginsWithHeader(b) ==
  /\ Len(b) >= Len(segmentHeader)
  /\ SubSeq(b, 1, Len(segmentHeader)) = segmentHeader

\* ----------------------------------------------------------------- actions

\* JKBMS.handleNotification for the notification value `value`; decodeOk is
\* whether decoder.decode returns (it rethrows what an item getter throws)
HandleNotification(value, decodeOk) ==
  /\ Len(responseBuffer) + Len(value) <= MaxBuffer
  /\ inactivityTimeout' = registerActivity
  /\ IF Len(value) = 0
     THEN /\ ev' = Ev("notify", "empty")
          /\ emitted' = NoEmit
          /\ cb' = <<>>
          /\ UNCHANGED <<responseBuffer, cache>>
     ELSE LET r == Assemble(value, decodeOk) IN
          /\ responseBuffer' = r.buffer
          /\ ev' = Ev("notify", r.branch)
          /\ emitted' = r.emit
          /\ cb' = IF r.emit = NoEmit THEN <<>>
                   ELSE <<[name |-> "onDataReceived", arg |-> r.emit.kind]>>
          /\ cache' = IF r.emit = NoEmit THEN cache
                      ELSE [cache EXCEPT ![r.emit.kind] = handleDecodedData(r.emit.kind)]
  /\ trace' = IF emitted' # NoEmit /\ "onDataReceived" \in trace.on
               THEN [trace EXCEPT !.log = Append(@, dataReceived(emitted'.kind))]
               ELSE trace
  /\ written' = NoWrite
  /\ returned' = NoReturn
  /\ idle' = 0
  /\ UNCHANGED <<status, deviceIdenticator, characteristic, bluetoothDevice,
                 tasks, leakedTimers, transport, now, request, decoded>>

\* a notification with an arbitrary value
Notify ==
  \E value \in Fragments, decodeOk \in BOOLEAN :
    /\ HandleNotification(value, decodeOk)
    /\ delivery' = NoDelivery

\* the device starts to send a complete segment: its first n bytes arrive
StartSegment ==
  \E s \in GoodSegments, n \in Len(segmentHeader)..ResponseLength, decodeOk \in BOOLEAN :
    /\ HandleNotification(SubSeq(s, 1, n), decodeOk)
    /\ delivery' = [active |-> TRUE, pending |-> SubSeq(s, n + 1, Len(s)),
                    emits |-> IF emitted' = NoEmit THEN 0 ELSE 1]

\* the next n bytes of the segment in delivery arrive; like every fragment
\* after the first they do not begin with the segment header
ContinueSegment ==
  \E n \in 1..Len(delivery.pending), decodeOk \in BOOLEAN :
    /\ delivery.active
    /\ ~BeginsWithHeader(SubSeq(delivery.pending, 1, n))
    /\ HandleNotification(SubSeq(delivery.pending, 1, n), decodeOk)
    /\ delivery' = [active |-> TRUE,
                    pending |-> SubSeq(delivery.pending, n + 1, Len(delivery.pending)),
                    emits |-> delivery.emits + (IF emitted' = NoEmit THEN 0 ELSE 1)]

InitFrame ==
  /\ status = "connected"
  /\ deviceIdenticator = "dev"
  /\ cache = EmptyCache
  /\ characteristic = "char"
  /\ bluetoothDevice = "dev"
  /\ inactivityTimeout = "armed"
  /\ responseBuffer = <<>>
  /\ tasks = EmptyBag
  /\ leakedTimers = FALSE
  /\ decoded = NoDecode
  /\ transport = [connected |-> TRUE, notifying |-> TRUE, listening |-> TRUE,
                  listeners |-> 1, eventPending |-> FALSE, watches |-> 0]
  /\ now = 1
  /\ ev = NoEvent
  /\ cb = <<>>
  /\ emitted = NoEmit
  /\ written = NoWrite
  /\ request = NoRequest
  /\ delivery = NoDelivery
  /\ returned = NoReturn
  /\ idle = 0
  /\ trace = TraceOff


NextFrame == Notify \/ StartSegment \/ ContinueSegment

\* the frame assembler of a connected session
SpecFrame == InitFrame /\ [][NextFrame]_vars

\* ------------------------------------------------------------ session steps

\* The methods of JKBMS run on one thread and give up control only at an
\* await. A step of the model is the code between two awaits, computed on a
\* record of the fields it reads and writes.

DisconnectReasons == {"user", "external", "inactivity", "error"}

Cur ==
  [status |-> status, deviceIdenticator |-> deviceIdenticator, cache |-> cache,
   characteristic |-> characteristic, bluetoothDevice |-> bluetoothDevice,
   inactivityTimeout |-> inactivityTimeout, responseBuffer |-> responseBuffer,
   tasks |-> tasks, leakedTimers |-> leakedTimers, transport |-> transport,
   cb |-> <<>>, written |-> NoWrite, request |-> request,
   returned |-> NoReturn, idle |-> idle, trace |-> trace]

Becomes(s) ==
  /\ status' = s.status
  /\ deviceIdenticator' = s.deviceIdenticator
  /\ cache' = s.cache
  /\ characteristic' = s.characteristic
  /\ bluetoothDevice' = s.bluetoothDevice
  /\ inactivityTimeout' = s.inactivityTimeout
  /\ responseBuffer' = s.responseBuffer
  /\ tasks' = s.tasks
  /\ leakedTimers' = s.leakedTimers
  /\ transport' = s.transport
  /\ cb' = s.cb
  /\ written' = s.written
  /\ request' = s.request
  /\ emitted' = NoEmit
  /\ delivery' = NoDelivery
  /\ now' = now
  /\ returned' = s.returned
  /\ idle' = s.idle
  /\ trace' = s.trace
  /\ decoded' = decoded

\* an async call in progress: which method, the await it is at, its argument
\* (disconnect: the reason; a command send: the command name), whether its
\* command timeout timer is pending, and for a command send the caller that
\* awaits it
Task(kind, pc, arg) ==
  [kind |-> kind, pc |-> pc, arg |-> arg, timer |-> FALSE, then |-> NULL]

\* the calls in progress are a bag: their order means nothing
Running == BagToSet(tasks)

spawn(s, task) == [s EXCEPT !.tasks = @ (+) SetToBag({task})]
finish(s, task) == [s EXCEPT !.tasks = @ (-) SetToBag({task})]
moveTo(s, task, pc) == spawn(finish(s, task), [task EXCEPT !.pc = pc])

\* an entry of the trace: a callback and its argument, a sendCommand call
\* or a write with its command name and payload
Entry(name, arg, bytes) == [name |-> name, arg |-> arg, bytes |-> bytes]

logged(s, entry) ==
  IF entry.name \in s.trace.on
  THEN [s EXCEPT !.trace.log = Append(@, entry)]
  ELSE s

\* this.callbacks.<name>?.(arg)
callback(s, name, arg) ==
  logged([s EXCEPT !.cb = Append(@, [name |-> name, arg |-> arg])],
         Entry(name, arg, <<>>))

\* the async call `task` resolves with `value`
resolve(s, task, value) ==
  [finish(s, task) EXCEPT
     !.returned = [call |-> task.kind, value |-> value, at |-> task.pc]]

setStatus(s, newStatus) ==
  callback([s EXCEPT !.status = newStatus], "onStatusChange", newStatus)

\* mutant: reset forgets the record cache
reset_keepsCache(s) ==
  [setStatus(s, "disconnected") EXCEPT
     !.deviceIdenticator = NULL,
     !.characteristic = NULL,
     !.bluetoothDevice = NULL,
     !.inactivityTimeout = NULL,
     !.idle = 0,
     !.responseBuffer = flushResponseBuffer]

reset(s) ==
  [setStatus(s, "disconnected") EXCEPT
     !.deviceIdenticator = NULL,
     !.cache = EmptyCache,
     !.characteristic = NULL,
     !.bluetoothDevice = NULL,
     !.inactivityTimeout = NULL,
     !.idle = 0,
     !.responseBuffer = flushResponseBuffer]

\* the end of disconnect(reason), lines 597-599
disconnectEnd(s, reason) == reset(callback(s, "onDisconnected", reason))

\* disconnect(reason), lines 575-599, to its first await: the early return of
\* line 579 is commented out, so the call goes on whatever the status. With
\* reason 'external' there is no await and the call runs to its end.
disconnect(s, reason) ==
  IF reason # "external"
  THEN spawn(s, Task("disconnect",
                     IF s.characteristic # NULL THEN "stopNotifications" ELSE "wait1",
                     reason))
  ELSE disconnectEnd(s, reason)

\* ------------------------------------------------------------- sendCommand

\* sendCommand, lines 764-798, to the await of the write: it throws without
\* a characteristic; it starts the timeout timer, then constructCommandPayload
\* may throw (the timer stays pending); else the write is issued, with
\* response iff a payload was given
sendCommand(s, commandName, payload) ==
  IF s.characteristic = NULL
  THEN [threw |-> TRUE, timer |-> FALSE, write |-> NoWrite]
  ELSE
  LET command == getCommandByName(commandName)
      preparedCommand == constructCommandPayload(command, payload)
  IN  IF preparedCommand.threw
      THEN [threw |-> TRUE, timer |-> TRUE, write |-> NoWrite]
      ELSE [threw |-> FALSE, timer |-> TRUE,
            write |-> [buffer |-> preparedCommand.buffer,
                       withResponse |-> payload.given]]

\* a timer of a call that is over stays pending until it fires
leak(s, pendingTimer) ==
  IF pendingTimer THEN [s EXCEPT !.leakedTimers = TRUE] ELSE s

PayloadBytes == {0, 1, 255}

Payloads ==
  {NoPayload} \cup
  {Payload(b) : b \in UNION {SeqsOf(PayloadBytes, n) : n \in 0..MaxPayload}}

\* sendCommand(commandName, payload) called by `then`, to its first await:
\* it threw, or its write is issued and the caller awaits it
startSend(s, commandName, payload, then) ==
  LET called == logged(s, Entry("sendCommand", commandName, payload.bytes))
      r == sendCommand(called, commandName, payload)
  IN  IF r.threw
      THEN [threw |-> TRUE, s |-> leak(called, r.timer)]
      ELSE [threw |-> FALSE,
            s |-> logged([spawn(called, [Task("send", "write", commandName)
                                           EXCEPT !.timer = TRUE, !.then = then])
                            EXCEPT !.written = r.write],
                         Entry("write", commandName, payload.bytes))]

\* the catch of subscribeToDataNotifications, lines 754-761
subscribeCatch(s) == callback(disconnect(s, "error"), "onError", "error")

\* toggleCharging / toggleDischarging settles
toggleSettled(s, value) ==
  [s EXCEPT !.returned = [call |-> "toggle", value |-> value, at |-> NULL]]

\* mutant: the settings are fetched again only after a toggle that succeeded
toggleFinally_onSuccess(s, then) ==
  IF then = "toggle2rethrow" THEN toggleSettled(s, "rejected")
  ELSE LET n == startSend(s, "GET_SETTINGS", NoPayload, then)
       IN  IF n.threw THEN toggleSettled(n.s, "rejected") ELSE n.s

\* the finally of toggleCharging / toggleDischarging, lines 855-857 and
\* 867-869: sendCommand(GET_SETTINGS), after which the toggle settles (then
\* is "toggle2") or throws again what the try block threw ("toggle2rethrow")
toggleFinally(s, then) ==
  LET n == startSend(s, "GET_SETTINGS", NoPayload, then)
  IN  IF n.threw THEN toggleSettled(n.s, "rejected") ELSE n.s

\* the caller of a sendCommand that returned goes on: after GET_SETTINGS
\* subscribeToDataNotifications sends GET_DEVICE_INFO; a toggle goes to its
\* finally, and settles after the GET_SETTINGS of the finally
afterSendReturned(s, then) ==
  IF then = "subscribe1"
  THEN LET n == startSend(s, "GET_DEVICE_INFO", NoPayload, "subscribe2")
       IN  IF n.threw THEN subscribeCatch(n.s) ELSE n.s
  ELSE IF then = "toggle1" THEN toggleFinally(s, "toggle2")
  ELSE IF then = "toggle2" THEN toggleSettled(s, "fulfilled")
  ELSE IF then = "toggle2rethrow" THEN toggleSettled(s, "rejected")
  ELSE s

\* the caller of a sendCommand that threw
afterSendThrew(s, then) ==
  IF then \in {"subscribe1", "subscribe2"} THEN subscribeCatch(s)
  ELSE IF then = "toggle1" THEN toggleFinally(s, "toggle2rethrow")
  ELSE IF then \in {"toggle2", "toggle2rethrow"} THEN toggleSettled(s, "rejected")
  ELSE s

\* a method of the session calls sendCommand(commandName, payload)
SendCommandCall ==
  \E commandName \in JKBMS_COMMANDS, payload \in Payloads :
    LET called == [Cur EXCEPT !.request = [commandName |-> commandName,
                                           payload |-> payload]]
        r == startSend(called, commandName, payload, NULL)
    IN
    /\ tasks = EmptyBag
    /\ Becomes(r.s)
    /\ ev' = Ev("sendCommand", IF r.threw THEN "threw" ELSE "writing")

\* the write of a sendCommand call settles: on success the timer is cleared
\* and the post-send wait starts, on failure the call throws
SendWriteSettled ==
  \E t \in Running, ok \in BOOLEAN :
    /\ t.kind = "send"
    /\ t.pc = "write"
    /\ ok => transport.connected
    /\ IF ~ok
       THEN /\ Becomes(afterSendThrew(leak(finish(Cur, t), t.timer),
                                      t.then))
            /\ ev' = Ev("sendCommand", "threw")
       ELSE IF getCommandByName(t.arg).wait # 0
       THEN /\ Becomes(spawn(finish(Cur, t), [t EXCEPT !.pc = "wait", !.timer = FALSE]))
            /\ ev' = Ev("sendCommand", "waiting")
       ELSE /\ Becomes(afterSendReturned(finish(Cur, t), t.then))
            /\ ev' = Ev("sendCommand", "returned")

\* the post-send wait is over: sendCommand returns
SendWaitDone ==
  \E t \in Running :
    /\ t.kind = "send"
    /\ t.pc = "wait"
    /\ Becomes(afterSendReturned(finish(Cur, t), t.then))
    /\ ev' = Ev("sendCommand", "returned")

\* the timeout timer of a send in progress fires: its callback throws inside
\* the timer, which the pending sendCommand call does not see
CommandTimerFires ==
  \E t \in Running :
    /\ t.timer
    /\ Becomes(spawn(finish(Cur, t), [t EXCEPT !.timer = FALSE]))
    /\ ev' = Ev("commandTimer", t.arg)

\* the timeout timer of a call that is over fires; more of them may be left
LeakedTimerFires ==
  \E more \in BOOLEAN :
    /\ leakedTimers
    /\ Becomes([Cur EXCEPT !.leakedTimers = more])
    /\ ev' = Ev("commandTimer", "leaked")

InitCmd == InitFrame

NextCmd ==
  \/ SendCommandCall
  \/ SendWriteSettled
  \/ SendWaitDone
  \/ CommandTimerFires
  \/ LeakedTimerFires

\* the command transmitter of a connected session
SpecCmd == InitCmd /\ [][NextCmd]_vars

\* ------------------------------------------------------------------ connect

\* the catch of the device request, lines 481-492
requestCatch(s) ==
  callback(setStatus(s, "disconnected"), "onRequestDeviceError", "error")

\* mutant: the catch of the connection reports the error and leaves it there
connectCatch_reportsOnly(s) == callback(s, "onRequestDeviceError", "error")

\* the catch of the connection, lines 563-572: disconnect is not awaited
connectCatch(s) ==
  callback(disconnect(s, "error"), "onRequestDeviceError", "error")

\* subscribeToDataNotifications, lines 732-746, to its first await
subscribeToDataNotifications(s) ==
  IF s.characteristic = NULL THEN s
  ELSE spawn([s EXCEPT !.transport.listening = TRUE],
             Task("subscribe", "startNotifications", NULL))

\* connect, lines 536-562, once the characteristic is there
connectEnd(s) ==
  LET ready == setStatus([s EXCEPT !.characteristic = "char",
                                   !.bluetoothDevice = "dev"], "connected")
      subscribing == subscribeToDataNotifications(ready)
  IN  callback([subscribing EXCEPT !.deviceIdenticator = "dev"],
               "onConnected", "dev")

At(task, kind, pc) == task.kind = kind /\ task.pc = pc

\* connect(options), lines 442-476, to its first await; previous is whether
\* options.previous is given and used
ConnectCall ==
  \E previous \in BOOLEAN :
    /\ BagCardinality(tasks) < MaxTasks
    /\ Becomes(spawn(setStatus(Cur, "scanning"),
                     Task("connect",
                          IF previous THEN "getDevices" ELSE "requestDevice",
                          NULL)))
    /\ ev' = NoEvent

\* mutant: an unpaired previous device makes connect ask for a device
GetDevicesSettled_prompts(t, outcome) ==
  /\ At(t, "connect", "getDevices")
  /\ Becomes(IF outcome = "matched"
             THEN moveTo(Cur, t, "watchAdvertisements")
             ELSE IF outcome = "unmatched"
             THEN moveTo(callback(Cur, "onPreviousUnavailable", NULL),
                         t, "requestDevice")
             ELSE resolve(requestCatch(Cur), t, NULL))
  /\ ev' = NoEvent

\* tryGetPreviousDevice: navigator.bluetooth.getDevices() settles for the
\* connect call t: the previous device is among the paired ones, is not, or
\* the request is rejected
GetDevicesSettled(t, outcome) ==
  /\ At(t, "connect", "getDevices")
  /\ Becomes(IF outcome = "matched"
             THEN moveTo(Cur, t, "watchAdvertisements")
             ELSE IF outcome = "unmatched"
             THEN resolve(setStatus(callback(Cur, "onPreviousUnavailable", NULL),
                                    "disconnected"), t, NULL)
             ELSE resolve(requestCatch(Cur), t, NULL))
  /\ ev' = NoEvent

ConnectGetDevices ==
  \E t \in Running, outcome \in {"matched", "unmatched", "rejected"} :
    GetDevicesSettled(t, outcome)

\* tryGetPreviousDevice: watchAdvertisements settles
ConnectWatchAdvertisements ==
  \E t \in Running, ok \in BOOLEAN :
    /\ At(t, "connect", "watchAdvertisements")
    /\ Becomes(IF ok
               THEN moveTo([Cur EXCEPT !.transport.watches = @ + 1],
                           t, "advertisement")
               ELSE resolve(requestCatch(Cur), t, NULL))
    /\ ev' = NoEvent

\* tryGetPreviousDevice: for the connect call t an advertisement arrives or
\* connectPreviousTimeout runs out; the watch is aborted (line 665), then
\* connect goes on to gatt.connect() or returns null
AdvertisementSettled(t, isMatchedDeviceInRange) ==
  LET aborted == [Cur EXCEPT !.transport.watches = @ - 1] IN
  /\ At(t, "connect", "advertisement")
  /\ Becomes(IF isMatchedDeviceInRange
             THEN moveTo(setStatus(aborted, "connecting"), t, "gattConnect")
             ELSE resolve(setStatus(callback(aborted, "onPreviousUnavailable", "dev"),
                                    "disconnected"), t, NULL))
  /\ ev' = NoEvent

ConnectAdvertisement ==
  \E t \in Running, isMatchedDeviceInRange \in BOOLEAN :
    AdvertisementSettled(t, isMatchedDeviceInRange)

\* requestBluetoothDevice: navigator.bluetooth.requestDevice settles
ConnectRequestDevice ==
  \E t \in Running, ok \in BOOLEAN :
    /\ At(t, "connect", "requestDevice")
    /\ Becomes(IF ok THEN moveTo(setStatus(Cur, "connecting"), t, "gattConnect")
               ELSE resolve(requestCatch(Cur), t, NULL))
    /\ ev' = NoEvent

\* device.gatt?.connect() settles: connected, rejected, or the device has no
\* gatt; unless it rejected the disconnect listener is added and the watchdog
\* armed
ConnectGatt ==
  \E t \in Running, outcome \in {"connected", "rejected", "noGatt"} :
    LET listened == [Cur EXCEPT !.transport.listeners = @ + 1,
                                !.inactivityTimeout = registerActivity,
                                !.idle = 0]
    IN
    /\ At(t, "connect", "gattConnect")
    /\ outcome # "rejected" => transport.listeners < MaxListeners
    /\ Becomes(IF outcome = "connected"
               THEN moveTo([listened EXCEPT !.transport.connected = TRUE],
                           t, "getPrimaryService")
               ELSE IF outcome = "noGatt"
               THEN connectCatch(resolve(listened, t, NULL))
               ELSE connectCatch(resolve(Cur, t, NULL)))
    /\ ev' = NoEvent

\* server.getPrimaryService settles
ConnectGetPrimaryService ==
  \E t \in Running, ok \in BOOLEAN :
    /\ At(t, "connect", "getPrimaryService")
    /\ ok => transport.connected
    /\ Becomes(IF ok THEN moveTo(Cur, t, "getCharacteristic")
               ELSE connectCatch(resolve(Cur, t, NULL)))
    /\ ev' = NoEvent

\* service.getCharacteristic settles
ConnectGetCharacteristic ==
  \E t \in Running, ok \in BOOLEAN :
    /\ At(t, "connect", "getCharacteristic")
    /\ ok => transport.connected
    /\ Becomes(IF ok THEN connectEnd(resolve(Cur, t, "dev"))
               ELSE connectCatch(resolve(Cur, t, NULL)))
    /\ ev' = NoEvent

\* ---------------------------------------------------------------- subscribe

\* characteristic.startNotifications settles
SubscribeStartSettled ==
  \E t \in Running, ok \in BOOLEAN :
    /\ At(t, "subscribe", "startNotifications")
    /\ ok => transport.connected
    /\ Becomes(IF ok
               THEN [moveTo(Cur, t, "wait200") EXCEPT !.transport.notifying = TRUE]
               ELSE subscribeCatch(finish(Cur, t)))
    /\ ev' = NoEvent

\* wait(200) is over: sendCommand(GET_SETTINGS)
SubscribeWaitDone ==
  \E t \in Running :
    LET n == startSend(finish(Cur, t), "GET_SETTINGS", NoPayload, "subscribe1") IN
    /\ At(t, "subscribe", "wait200")
    /\ Becomes(IF n.threw THEN subscribeCatch(n.s) ELSE n.s)
    /\ ev' = Ev("sendCommand", IF n.threw THEN "threw" ELSE "writing")

\* --------------------------------------------------------------- disconnect

\* the link is gone: the GATT objects are dead and the device object gets a
\* gattserverdisconnected event
dropLink(s) ==
  [s EXCEPT !.transport.connected = FALSE,
            !.transport.notifying = FALSE,
            !.transport.listening = FALSE,
            !.transport.eventPending = TRUE]

\* disconnect(reason) is called
DisconnectCall ==
  \E reason \in DisconnectReasons :
    /\ reason # "external" => BagCardinality(tasks) < MaxTasks
    /\ Becomes(disconnect(Cur, reason))
    /\ ev' = NoEvent

\* characteristic.stopNotifications settles; a rejection is only logged
DisconnectStopSettled ==
  \E t \in Running, ok \in BOOLEAN :
    /\ At(t, "disconnect", "stopNotifications")
    /\ Becomes(moveTo(IF ok THEN [Cur EXCEPT !.transport.notifying = FALSE] ELSE Cur,
                      t, "wait1"))
    /\ ev' = NoEvent

\* the first wait(100) is over: bluetoothDevice?.gatt?.disconnect()
DisconnectWait1Done ==
  \E t \in Running :
    /\ At(t, "disconnect", "wait1")
    /\ Becomes(moveTo(IF bluetoothDevice # NULL /\ transport.connected
                      THEN dropLink(Cur) ELSE Cur,
                      t, "wait2"))
    /\ ev' = NoEvent

\* the second wait(100) is over: onDisconnected, reset, and the call is done
DisconnectWait2Done ==
  \E t \in Running :
    /\ At(t, "disconnect", "wait2")
    /\ Becomes(disconnectEnd(resolve(Cur, t, NULL), t.arg))
    /\ ev' = NoEvent

\* every listener added by connect (line 503) runs disconnect('external')
RECURSIVE externalDisconnects(_, _)
externalDisconnects(s, listeners) ==
  IF listeners = 0 THEN s
  ELSE externalDisconnects(disconnect(s, "external"), listeners - 1)

\* the gattserverdisconnected event is dispatched
GattServerDisconnected ==
  /\ transport.eventPending
  /\ Becomes(externalDisconnects([Cur EXCEPT !.transport.eventPending = FALSE],
                                 transport.listeners))
  /\ ev' = NoEvent

\* the device goes out of range or is switched off
LinkLost ==
  /\ transport.connected
  /\ Becomes(dropLink(Cur))
  /\ ev' = NoEvent

\* mutant: the timer callback only logs
WatchdogFires_logsOnly ==
  /\ inactivityTimeout = "armed"
  /\ BagCardinality(tasks) < MaxTasks
  /\ Becomes(logged([Cur EXCEPT !.inactivityTimeout = "fired", !.idle = 0],
                     Entry("watchdog", "inactivity", <<>>)))
  /\ ev' = NoEvent

\* the inactivity timer set by registerActivity fires, lines 724-727
WatchdogFires ==
  /\ inactivityTimeout = "armed"
  /\ BagCardinality(tasks) < MaxTasks
  /\ Becomes(disconnect(logged([Cur EXCEPT !.inactivityTimeout = "fired", !.idle = 0],
                                Entry("watchdog", "inactivity", <<>>)),
                         "inactivity"))
  /\ ev' = NoEvent

\* notification values of the session: a SETTINGS segment in two fragments
SessionFragments ==
  LET segment == WireSegment(1, [i \in 1..DataLength |-> 200])
      half == Len(segmentHeader) + 1
  IN  {SubSeq(segment, 1, half), SubSeq(segment, half + 1, Len(segment))}

\* the characteristic notifies the listener added by
\* subscribeToDataNotifications; the decoder does not throw on the segment
SessionNotify ==
  \E value \in SessionFragments, decodeOk \in {TRUE} :
    /\ transport.connected
    /\ transport.listening
    /\ transport.notifying
    /\ HandleNotification(value, decodeOk)
    /\ delivery' = NoDelivery

\* --------------------------------------------------------------- the session

\* new JKBMS(callbacks): the constructor ends with reset()
Constructed ==
  /\ status = "disconnected"
  /\ deviceIdenticator = NULL
  /\ cache = EmptyCache
  /\ characteristic = NULL
  /\ bluetoothDevice = NULL
  /\ inactivityTimeout = NULL
  /\ responseBuffer = flushResponseBuffer
  /\ tasks = EmptyBag
  /\ leakedTimers = FALSE
  /\ transport = [connected |-> FALSE, notifying |-> FALSE, listening |-> FALSE,
                  listeners |-> 0, eventPending |-> FALSE, watches |-> 0]
  /\ now = 1
  /\ ev = NoEvent
  /\ cb = <<>>
  /\ emitted = NoEmit
  /\ written = NoWrite
  /\ request = NoRequest
  /\ delivery = NoDelivery
  /\ returned = NoReturn
  /\ idle = 0
  /\ trace = TraceOff

Init ==
  /\ Constructed
  /\ decoded = NoDecode

Next ==
  \/ ConnectCall
  \/ ConnectGetDevices
  \/ ConnectWatchAdvertisements
  \/ ConnectAdvertisement
  \/ ConnectRequestDevice
  \/ ConnectGatt
  \/ ConnectGetPrimaryService
  \/ ConnectGetCharacteristic
  \/ SubscribeStartSettled
  \/ SubscribeWaitDone
  \/ SendWriteSettled
  \/ SendWaitDone
  \/ CommandTimerFires
  \/ LeakedTimerFires
  \/ DisconnectCall
  \/ DisconnectStopSettled
  \/ DisconnectWait1Done
  \/ DisconnectWait2Done
  \/ GattServerDisconnected
  \/ LinkLost
  \/ WatchdogFires
  \/ SessionNotify

\* the device session from its construction on
Spec == Init /\ [][Next]_vars

\* ----------------------------------------------------------- the application

\* The application of the session calls connect, toggleCharging and
\* toggleDischarging and awaits each call before it makes the next. Its runs
\* are followed up to the transport: what the timers of the watchdog and of
\* the command timeout do is left to the other specifications.

ToggleCommands == {"TOGGLE_CHARGING", "TOGGLE_DISCHARGING"}
ToggleStages == {"toggle1", "toggle2", "toggle2rethrow"}

\* toggleCharging(value) / toggleDischarging(value), lines 851-870, to the
\* first await
ToggleCall(commandName, value) ==
  LET n == startSend(Cur, commandName, Payload(<<IF value THEN 1 ELSE 0>>), "toggle1")
  IN
  /\ BagCardinality(tasks) < MaxTasks
  /\ Becomes(IF n.threw THEN afterSendThrew(n.s, "toggle1") ELSE n.s)
  /\ ev' = Ev("sendCommand", IF n.threw THEN "threw" ELSE "writing")

\* no call of the application is in progress
AppIdle ==
  \A t \in Running : t.kind # "connect" /\ t.then \notin ToggleStages

\* the calls the application has made
Calls ==
  Cardinality({i \in 1..Len(trace.log) :
                 \/ trace.log[i] = Entry("onStatusChange", "scanning", <<>>)
                 \/ /\ trace.log[i].name = "sendCommand"
                    /\ trace.log[i].arg \in ToggleCommands})

AppConnect ==
  /\ AppIdle
  /\ Calls < MaxCalls
  /\ ConnectCall

AppToggle ==
  \E commandName \in ToggleCommands, value \in BOOLEAN :
    /\ AppIdle
    /\ Calls < MaxCalls
    /\ ToggleCall(commandName, value)

\* what the application sees of the session and what the session sends
AppTrace ==
  Tracing({"onStatusChange", "onConnected", "onDisconnected", "onError",
           "onRequestDeviceError", "onPreviousUnavailable", "sendCommand", "write"})

\* new JKBMS(callbacks), with the callbacks, sendCommand calls and writes
\* recorded from then on
InitApp ==
  /\ status = "disconnected"
  /\ deviceIdenticator = NULL
  /\ cache = EmptyCache
  /\ characteristic = NULL
  /\ bluetoothDevice = NULL
  /\ inactivityTimeout = NULL
  /\ responseBuffer = flushResponseBuffer
  /\ tasks = EmptyBag
  /\ leakedTimers = FALSE
  /\ decoded = NoDecode
  /\ transport = [connected |-> FALSE, notifying |-> FALSE, listening |-> FALSE,
                  listeners |-> 0, eventPending |-> FALSE, watches |-> 0]
  /\ now = 1
  /\ ev = NoEvent
  /\ cb = <<>>
  /\ emitted = NoEmit
  /\ written = NoWrite
  /\ request = NoRequest
  /\ delivery = NoDelivery
  /\ returned = NoReturn
  /\ idle = 0
  /\ trace = AppTrace

NextApp ==
  \/ AppConnect
  \/ AppToggle
  \/ ConnectGetDevices
  \/ ConnectWatchAdvertisements
  \/ ConnectAdvertisement
  \/ ConnectRequestDevice
  \/ ConnectGatt
  \/ ConnectGetPrimaryService
  \/ ConnectGetCharacteristic
  \/ SubscribeStartSettled
  \/ SubscribeWaitDone
  \/ SendWriteSettled
  \/ SendWaitDone
  \/ DisconnectStopSettled
  \/ DisconnectWait1Done
  \/ DisconnectWait2Done
  \/ GattServerDisconnected
  \/ LinkLost

\* the session used by an application that awaits its calls
SpecApp == InitApp /\ [][NextApp]_vars

\* the promises and the wait(100) timers of a disconnect in progress settle
SpecAppFair ==
  /\ SpecApp
  /\ WF_vars(DisconnectStopSettled)
  /\ WF_vars(DisconnectWait1Done)
  /\ WF_vars(DisconnectWait2Done)

\* ------------------------------------------------------------ the watchdog

\* The connected session with a clock: the inactivity timer armed by
\* registerActivity fires when InactivityTimeout ticks have passed since.

\* a tick of the clock; it does not pass the expiry of the armed timer
Tick ==
  /\ now < MaxNow
  /\ inactivityTimeout = "armed" => idle < InactivityTimeout
  /\ now' = now + 1
  /\ idle' = IF inactivityTimeout = "armed" THEN idle + 1 ELSE idle
  /\ ev' = NoEvent
  /\ cb' = <<>>
  /\ emitted' = NoEmit
  /\ written' = NoWrite
  /\ delivery' = NoDelivery
  /\ returned' = NoReturn
  /\ UNCHANGED <<session, tasks, leakedTimers, transport, request, trace,
                 decoded>>

\* the inactivity timer expires, protocol.inactivityTimeout after it was set
WatchdogExpires ==
  /\ idle = InactivityTimeout
  /\ WatchdogFires

\* the session after a successful connect and bootstrap
Connected ==
  /\ status = "connected"
  /\ deviceIdenticator = "dev"
  /\ cache = EmptyCache
  /\ characteristic = "char"
  /\ bluetoothDevice = "dev"
  /\ inactivityTimeout = "armed"
  /\ responseBuffer = <<>>
  /\ tasks = EmptyBag
  /\ leakedTimers = FALSE
  /\ decoded = NoDecode
  /\ transport = [connected |-> TRUE, notifying |-> TRUE, listening |-> TRUE,
                  listeners |-> 1, eventPending |-> FALSE, watches |-> 0]
  /\ now = 1
  /\ ev = NoEvent
  /\ cb = <<>>
  /\ emitted = NoEmit
  /\ written = NoWrite
  /\ request = NoRequest
  /\ delivery = NoDelivery
  /\ returned = NoReturn
  /\ idle = 0

\* the trace records the expiries of the watchdog and the disconnect reports
InitWatch ==
  /\ Connected
  /\ trace = Tracing({"watchdog", "onDisconnected"})

NextWatch ==
  \/ Tick
  \/ WatchdogExpires
  \/ SessionNotify
  \/ AppToggle
  \/ SendWriteSettled
  \/ SendWaitDone
  \/ DisconnectStopSettled
  \/ DisconnectWait1Done
  \/ DisconnectWait2Done
  \/ GattServerDisconnected

\* one connection under its inactivity watchdog
SpecWatch == InitWatch /\ [][NextWatch]_vars

\* the promises and the wait(100) timers of a disconnect in progress settle
SpecWatchFair ==
  /\ SpecWatch
  /\ WF_vars(DisconnectStopSettled)
  /\ WF_vars(DisconnectWait1Done)
  /\ WF_vars(DisconnectWait2Done)

\* ------------------------------------------------------------------ claims

\* ------------------------------------------------------ the data dispatch
\* A connected session with a clock: the device sends whole segments of
\* both kinds, and the session is disconnected for any reason. The trace
\* records every emitted record and every disconnect report.

\* the characteristic notifies a whole segment; decode may throw
DataNotify ==
  \E value \in GoodSegments, decodeOk \in BOOLEAN :
    /\ Len(trace.log) < MaxLog
    /\ transport.connected
    /\ transport.listening
    /\ transport.notifying
    /\ HandleNotification(value, decodeOk)
    /\ delivery' = NoDelivery

\* device.disconnect(reason) is called
DataDisconnect ==
  /\ Len(trace.log) < MaxLog
  /\ DisconnectCall

InitData ==
  /\ Connected
  /\ trace = Tracing({"onDataReceived", "onDisconnected"})

NextData ==
  \/ Tick
  \/ DataNotify
  \/ DataDisconnect
  \/ WatchdogExpires
  \/ DisconnectStopSettled
  \/ DisconnectWait1Done
  \/ DisconnectWait2Done
  \/ GattServerDisconnected

SpecData == InitData /\ [][NextData]_vars

\* ------------------------------------------------------------ decode calls
\* decode applied to a response definition of up to MaxItems items, of any
\* variant and with repeated keys, laid out one after the other.

\* the items of a definition whose i-th item has key and variant choice[i]
Items(choice) ==
  [i \in 1..Len(choice) |->
     [key |-> choice[i].key,
      type |-> IF choice[i].variant = "getter" THEN "raw" ELSE choice[i].variant,
      getterFunction |-> choice[i].variant = "getter",
      offset |-> (i - 1) * ItemLength,
      byteLength |-> ItemLength]]

Definitions ==
  UNION {{Items(c) : c \in [1..n -> [key : ItemKeys, variant : ItemVariants]]} :
           n \in 0..MaxItems}

\* response bytes: all zero, all one, or counting up
Segments ==
  LET n == MaxItems * ItemLength
  IN  {[i \in 1..n |-> 0], [i \in 1..n |-> 1], [i \in 1..n |-> i]}

InitDecode ==
  /\ Constructed
  /\ decoded \in {[NoDecode EXCEPT !.items = d, !.segment = b] :
                    d \in Definitions, b \in Segments}

\* decoder.decode(responseType, signature, responseBuffer) returns
Decode ==
  /\ ~decoded.done
  /\ decoded' = [decoded EXCEPT !.result = decode(decoded.items, decoded.segment),
                                !.done = TRUE]
  /\ UNCHANGED <<session, tasks, leakedTimers, transport, now, ev, cb, emitted,
                 written, request, delivery, returned, idle, trace>>

NextDecode == Decode

SpecDecode == InitDecode /\ [][NextDecode]_vars


\* the response definition a buffer is a segment of, by its type byte
DefinitionOf(b) == getResponseBySignature(<<b[Len(segmentHeader) + 1]>>)

\* a buffer is a complete segment of a known response kind
IsCompleteSegment(b) ==
  /\ BeginsWithHeader(b)
  /\ Len(b) > Len(segmentHeader)
  /\ b[Len(segmentHeader) + 1] \in expectedSegments
  /\ Len(b) >= DefinitionOf(b).length

HasGoodChecksum(b) == b[Len(b)] = SumBytes(SubSeq(b, 1, Len(b) - 1)) % 256

\* C1: a complete, checksum-correct segment of a known kind, delivered as
\* non-empty fragments of which only the first begins with the segment
\* header, makes handleNotification invoke onDataReceived exactly once and
\* leaves the response buffer empty (stated for the deliveries whose final
\* decode does not throw; C3 is about the ones where it does).
C1_FragmentedReassembly ==
  (delivery.active /\ delivery.pending = <<>> /\ ev.arg # "decodeFailed")
    => (delivery.emits = 1 /\ responseBuffer = <<>>)

C2_Accepted ==
  emitted # NoEmit =>
    /\ BeginsWithHeader(emitted.buffer)
    /\ IsCompleteSegment(emitted.buffer)
    /\ DefinitionOf(emitted.buffer).dataType = emitted.kind
    /\ HasGoodChecksum(emitted.buffer)

C2_CorruptedFlushed ==
  /\ ev.arg = "corrupted" => (responseBuffer = <<>> /\ emitted = NoEmit)
  /\ IsCompleteSegment(responseBuffer) => HasGoodChecksum(responseBuffer)

C2_NothingElseTouched ==
  ev'.op = "notify" =>
    /\ UNCHANGED <<status, characteristic, bluetoothDevice, deviceIdenticator>>
    /\ emitted' = NoEmit => cache' = cache

\* C2: every buffer onDataReceived is invoked for begins with the segment
\* header, is at least as long as its response definition and ends with the
\* checksum of the bytes before; a complete buffer with another last byte
\* is flushed without an onDataReceived call, and status, handles and cache
\* stay as they were.
C2_ResponseIntegrity ==
  [](C2_Accepted /\ C2_CorruptedFlushed) /\ [][C2_NothingElseTouched]_vars

C2_Witness ==
  /\ ev.arg = "corrupted"
  /\ responseBuffer = <<>>
  /\ \E k \in ResponseDataTypes : cache[k].present

\* C3: once a complete, checksum-correct segment was handed to the decoder
\* the response buffer is empty, whether decoding succeeded or failed.
C3_FlushedAfterDecode ==
  ev.arg \in {"decoded", "decodeFailed"} => responseBuffer = <<>>

\* C4: a fragment that begins with the segment header, of any length,
\* replaces whatever the buffer held: afterwards the buffer is that fragment,
\* or empty if the fragment alone completed a segment.
C4_HeaderReset ==
  [][\A f \in Fragments :
       (BeginsWithHeader(f) /\ \E ok \in BOOLEAN : HandleNotification(f, ok))
         => \/ responseBuffer' = f
            \/ responseBuffer' = <<>> /\ IsCompleteSegment(f)]_vars

\* C5: a fragment that does not begin with the segment header, received
\* while the buffer does not begin with it either, is dropped: buffer,
\* status, handles and cache are unchanged and onDataReceived is not invoked.
C5_OrphanDropped ==
  [][\A f \in Fragments :
       (/\ ~BeginsWithHeader(f)
        /\ ~BeginsWithHeader(responseBuffer)
        /\ \E ok \in BOOLEAN : HandleNotification(f, ok))
         => /\ UNCHANGED <<responseBuffer, status, characteristic, bluetoothDevice,
                           deviceIdenticator, cache>>
            /\ emitted' = NoEmit]_vars

C5_Witness ==
  /\ ev.arg = "orphan"
  /\ responseBuffer = <<>>
  /\ emitted = NoEmit

\* the command and payload of the last sendCommand call
RequestCode == getCommandByName(request.commandName).code
RequestBytes == request.payload.bytes
RequestLength == Len(commandHeader) + Len(RequestCode) + Len(RequestBytes)

\* C6: a command buffer built for a payload that does not overflow is
\* commandLength bytes long, starts with the command header, the command
\* code and the payload, is zero-padded, and its last byte is the sum of
\* the bytes before it AND 0xFF.
C6_CommandBuffer ==
  written # NoWrite =>
    LET b == written.buffer
        L == Len(b)
    IN  /\ L = CommandLength
        /\ \A i \in 1..L :
             \/ i <= RequestLength /\ b[i] = (commandHeader \o RequestCode \o RequestBytes)[i]
             \/ i > RequestLength /\ i < L /\ b[i] = 0
             \/ i > RequestLength /\ i = L
        /\ b[L] = SumBytes(SubSeq(b, 1, L - 1)) % 256

\* C7: for header + code + payload of at most commandLength bytes (equality
\* included) the bytes at the code positions and at the payload positions of
\* the command buffer are the code and the payload.
C7_CommandRoundTrip ==
  (written # NoWrite /\ RequestLength <= CommandLength) =>
    LET b == written.buffer
        h == Len(commandHeader)
        c == Len(RequestCode)
    IN  /\ SubSeq(b, h + 1, h + c) = RequestCode
        /\ SubSeq(b, h + c + 1, h + c + Len(RequestBytes)) = RequestBytes

\* C8: when header + code + payload is longer than commandLength,
\* sendCommand throws and nothing is written to the characteristic: no
\* write is made and no send is left in progress.
C8_OverflowRejected ==
  (request # NoRequest /\ RequestLength > CommandLength) =>
    /\ written = NoWrite
    /\ \A t \in Running : t.kind # "send"
    /\ ev.op = "sendCommand" => ev.arg = "threw"

C8_Witness ==
  /\ request # NoRequest
  /\ RequestLength > CommandLength
  /\ ev = Ev("sendCommand", "threw")
  /\ written = NoWrite

\* a disconnect(reason) call came to its end in the last step: its last
\* statements are the onDisconnected callback and reset()
DisconnectDone(reason) ==
  \E i \in 1..Len(cb) : cb[i] = [name |-> "onDisconnected", arg |-> reason]

\* C9: when a disconnect(reason) call completes, whatever the reason and the
\* state it was made in, the status is 'disconnected', the characteristic,
\* the device and the device identity are null, the cache and the response
\* buffer are empty and no inactivity timer is armed.
C9_DisconnectTerminal ==
  \A reason \in DisconnectReasons :
    DisconnectDone(reason) =>
      /\ status = "disconnected"
      /\ characteristic = NULL
      /\ bluetoothDevice = NULL
      /\ deviceIdenticator = NULL
      /\ cache = EmptyCache
      /\ responseBuffer = <<>>
      /\ inactivityTimeout # "armed"

C9_Witness ==
  /\ DisconnectDone("inactivity")
  /\ transport.listeners > 0
  /\ status = "disconnected"
  /\ cache = EmptyCache

\* C10: a disconnect call made while the session is disconnected is a no-op:
\* up to its first await, or to its end when it has none, it changes no field
\* of the session and does not invoke onDisconnected.
C10_DisconnectIdempotent ==
  [][(status = "disconnected" /\ DisconnectCall)
       => /\ UNCHANGED session
          /\ \A i \in 1..Len(cb') : cb'[i].name # "onDisconnected"]_vars

\* C11: in the state a connect() call resolves in, the status is 'connected'
\* if it resolved with a device identity and 'disconnected' if it resolved
\* with null.
C11_ConnectResult ==
  returned.call = "connect" =>
    status = (IF returned.value # NULL THEN "connected" ELSE "disconnected")

\* the transitions of the session status the specification lists
StatusTransitions ==
  { <<"disconnected", "scanning">>, <<"scanning", "connecting">>,
    <<"scanning", "disconnected">>, <<"connecting", "connected">>,
    <<"connecting", "disconnected">>, <<"connected", "disconnected">> }

\* C12: every change of the session status, whatever the calls, transport
\* events and timer expiries, is one of the listed transitions.
C12_StatusTransitions ==
  [][status' # status => <<status, status'>> \in StatusTransitions]_vars

\* connect calls waiting for the interactive device request
Prompts(bag) == CopiesIn(Task("connect", "requestDevice", NULL), bag)

\* connect reported the previous device unavailable and resolved null
PreviousUnavailable(device) ==
  /\ \E i \in 1..Len(cb') : cb'[i] = [name |-> "onPreviousUnavailable", arg |-> device]
  /\ \A i \in 1..Len(cb') : cb'[i].name # "onRequestDeviceError"
  /\ returned'.call = "connect"
  /\ returned'.value = NULL
  /\ status' = "disconnected"
  /\ Prompts(tasks') = Prompts(tasks)

\* C14: a connect with a previous identity whose device is not paired, or
\* is paired but sends no advertisement within connectPreviousTimeout,
\* invokes onPreviousUnavailable (null, respectively the device), issues no
\* device request, aborts the advertisement watch it started, resolves null
\* and leaves the status 'disconnected'.
C14_PreviousUnavailable ==
  [][\A t \in Running :
       /\ GetDevicesSettled(t, "unmatched")
            => /\ PreviousUnavailable(NULL)
               /\ transport'.watches = transport.watches
       /\ AdvertisementSettled(t, FALSE)
            => /\ PreviousUnavailable("dev")
               /\ transport'.watches = transport.watches - 1]_vars

C14_Witness ==
  /\ returned = [call |-> "connect", value |-> NULL, at |-> "advertisement"]
  /\ cb = << [name |-> "onPreviousUnavailable", arg |-> "dev"],
             [name |-> "onStatusChange", arg |-> "disconnected"] >>
  /\ status = "disconnected"
  /\ transport.watches = 0
  /\ tasks = EmptyBag

\* the awaits of the connecting phase of connect
ConnectingAwaits == {"gattConnect", "getPrimaryService", "getCharacteristic"}

\* a connect call resolved null out of the connecting phase in the last step
TransportFailure ==
  /\ returned.call = "connect"
  /\ returned.value = NULL
  /\ returned.at \in ConnectingAwaits

\* the trace entries of the connect attempt made last
LastAttempt ==
  LET starts == {i \in 1..Len(trace.log) :
                   trace.log[i] = Entry("onStatusChange", "scanning", <<>>)}
  IN  IF starts = {} THEN {}
      ELSE {i \in 1..Len(trace.log) : \A j \in starts : j <= i}

C13_Reported ==
  TransportFailure =>
    /\ Cardinality({i \in 1..Len(cb) : cb[i].name = "onRequestDeviceError"}) = 1
    /\ \E t \in Running : t.kind = "disconnect" /\ t.arg = "error"

C13_NeverConnected ==
  (\E i \in LastAttempt : trace.log[i].name = "onRequestDeviceError")
    => \A i \in LastAttempt : trace.log[i].name # "onConnected"

\* C13: when gatt.connect(), getPrimaryService or getCharacteristic fails,
\* connect invokes onRequestDeviceError once and starts disconnect('error'),
\* onConnected is not invoked for the attempt, and eventually
\* onDisconnected('error') is invoked with the status 'disconnected'.
C13_TransportFailure ==
  /\ [](C13_Reported /\ C13_NeverConnected)
  /\ TransportFailure ~> (DisconnectDone("error") /\ status = "disconnected")

C13_Witness ==
  /\ DisconnectDone("error")
  /\ status = "disconnected"
  /\ transport.connected
  /\ \E i \in LastAttempt : trace.log[i] = Entry("onRequestDeviceError", "error", <<>>)
  /\ \A i \in LastAttempt : trace.log[i].name # "onError"

\* C15: every write of a command by sendCommand, like every notification,
\* leaves the inactivity timer armed anew, with the full
\* protocol.inactivityTimeout to run.
C15_ActivityRearms ==
  [][(written' # NoWrite \/ ev'.op = "notify")
       => (inactivityTimeout' = "armed" /\ idle' = 0)]_vars

\* how often an entry is in the trace
Count(entry) == Cardinality({i \in 1..Len(trace.log) : trace.log[i] = entry})

InactivityDisconnects ==
  {t \in Running : t.kind = "disconnect" /\ t.arg = "inactivity"}

RECURSIVE Copies(_)
Copies(S) ==
  IF S = {} THEN 0
  ELSE LET t == CHOOSE x \in S : TRUE IN CopiesIn(t, tasks) + Copies(S \ {t})

\* a connected session has its watchdog armed, or is being torn down by it
C16_Watched ==
  status = "connected" =>
    (inactivityTimeout = "armed" \/ InactivityDisconnects # {})

\* every expiry makes one disconnect('inactivity') call, which reports once
C16_OncePerExpiry ==
  Count(Entry("watchdog", "inactivity", <<>>))
    = Count(Entry("onDisconnected", "inactivity", <<>>)) + Copies(InactivityDisconnects)

SinceConnected ==
  LET reports == {i \in 1..Len(trace.log) : trace.log[i].name = "onConnected"}
  IN  IF reports = {} THEN {}
      ELSE {i \in 1..Len(trace.log) : \A j \in reports : j < i}

\* the writes to the characteristic among them
WritesSinceConnected == {i \in SinceConnected : trace.log[i].name = "write"}

\* C17: of the commands written to the characteristic after a successful
\* connect the first is GET_SETTINGS and the second is GET_DEVICE_INFO.
C17_BootstrapOrder ==
  \A i \in WritesSinceConnected :
    LET earlier == Cardinality({j \in WritesSinceConnected : j < i})
    IN  /\ earlier = 0 => trace.log[i].arg = "GET_SETTINGS"
        /\ earlier = 1 => trace.log[i].arg = "GET_DEVICE_INFO"

\* C18: when onConnected is invoked the notifications are started and both
\* bootstrap commands, GET_SETTINGS and then GET_DEVICE_INFO, have been
\* written in this attempt.
C18_ConnectedAfterBootstrap ==
  (\E k \in 1..Len(cb) : cb[k].name = "onConnected") =>
    /\ transport.notifying
    /\ \E i, j \in LastAttempt :
         /\ i < j
         /\ trace.log[i] = Entry("write", "GET_SETTINGS", <<>>)
         /\ trace.log[j] = Entry("write", "GET_DEVICE_INFO", <<>>)

\* the sendCommand calls in progress: written and not yet returned
Sends == {t \in Running : t.kind = "send"}

\* C19: with an application that awaits each of its calls, at most one
\* sendCommand call is between its write and the end of its post-send wait.
C19_NoOverlap == Copies(Sends) <= 1

\* the entries the trace gained in a step
NewEntries == SubSeq(trace'.log, Len(trace.log) + 1, Len(trace'.log))

\* a toggle is at the stage `stages` of its sends
ToggleAt(stages) == \E t \in Running : t.then \in stages

\* sendCommand(GET_SETTINGS) is called in the step
FetchesSettings ==
  \E i \in 1..Len(NewEntries) : NewEntries[i] = Entry("sendCommand", "GET_SETTINGS", <<>>)

\* toggleCharging(v) / toggleDischarging(v) calls sendCommand with the
\* payload 0x01 for true and 0x00 for false, and writes it with response
C20_Payload ==
  \A commandName \in ToggleCommands, value \in BOOLEAN :
    ToggleCall(commandName, value) =>
      LET byte == IF value THEN 1 ELSE 0
          at == Len(commandHeader) + Len(getCommandByName(commandName).code) + 1
      IN  /\ NewEntries[1] = Entry("sendCommand", commandName, <<byte>>)
          /\ written' # NoWrite =>
               /\ written'.buffer[at] = byte
               /\ written'.withResponse
               /\ ToggleAt({"toggle1"})'
          /\ written' = NoWrite => FetchesSettings

\* when the toggle command has returned or thrown, GET_SETTINGS is sent
C20_Finally ==
  (ToggleAt({"toggle1"}) /\ ~ToggleAt({"toggle1"})') => FetchesSettings

\* a toggle settles on the sendCommand(GET_SETTINGS) of its finally
C20_Settles ==
  returned'.call = "toggle" =>
    \/ \E t \in Running :
         /\ t.then \in {"toggle2", "toggle2rethrow"}
         /\ t.arg = "GET_SETTINGS"
         /\ ~ToggleAt(ToggleStages)'
    \/ /\ FetchesSettings
       /\ \A i \in 1..Len(NewEntries) :
            NewEntries[i].name = "sendCommand" /\ NewEntries[i].arg \in ToggleCommands
              => \E j \in (i + 1)..Len(NewEntries) :
                   NewEntries[j] = Entry("sendCommand", "GET_SETTINGS", <<>>)

\* C20: toggleCharging(v) and toggleDischarging(v) send their command with
\* the payload 0x01 for true and 0x00 for false and, whether that send
\* returned or threw, call sendCommand(GET_SETTINGS) next; they settle only
\* after that call, so the toggle command is never their last.
C20_SettingsWrites ==
  [][C20_Payload /\ C20_Finally /\ C20_Settles]_vars

C20_Witness ==
  /\ returned = [call |-> "toggle", value |-> "rejected", at |-> NULL]
  /\ \E i, j \in SinceConnected :
       /\ i < j
       /\ trace.log[i] = Entry("write", "TOGGLE_DISCHARGING", <<1>>)
       /\ trace.log[j] = Entry("write", "GET_SETTINGS", <<>>)
       /\ \A k \in SinceConnected : k < i => trace.log[k].name # "write"

\* C21: when the timeout timer of a command fires while its write is
\* pending, the sendCommand call fails: it is over, and its caller saw it
\* throw.
C21_CommandTimeout ==
  (ev.op = "commandTimer" /\ ev.arg # "leaked") =>
    \A t \in Running : ~(t.kind = "send" /\ t.pc = "write" /\ t.arg = ev.arg)

\* C24: disconnect('external') leaves the transport alone and starts no
\* teardown of its own; a disconnect for another reason has, when its first
\* wait is over, requested the transport disconnect, so that the link is
\* down, whether or not stopNotifications failed.
C24_TeardownByReason ==
  [][/\ DisconnectWait1Done => ~transport'.connected
     /\ GattServerDisconnected =>
          /\ transport'.connected = transport.connected
          /\ transport'.notifying = transport.notifying
          /\ tasks' = tasks]_vars

\* the disconnect reports in the trace
Reports == {i \in 1..Len(trace.log) : trace.log[i].name = "onDisconnected"}

\* C27: a connection is reported disconnected once: onDisconnected is not
\* invoked a second time for it.
C27_OneReport == Cardinality(Reports) <= 1

\* C28: a disconnect that ends while a later connect call is in progress
\* leaves status, handles, identity and cache of that attempt as they are.
C28_LateReset ==
  [][(DisconnectWait2Done /\ \E t \in Running : t.kind = "connect")
       => UNCHANGED <<status, characteristic, bluetoothDevice,
                      deviceIdenticator, cache>>]_vars

\* C29: when a notification has been handled while the status is
\* 'disconnected' and no connect or disconnect call is in progress, no
\* inactivity timer is armed.
C29_NoWatchdogWhileDisconnected ==
  (/\ status = "disconnected"
   /\ \A t \in Running : t.kind \notin {"connect", "disconnect"}
   /\ ev.op = "notify")
    => inactivityTimeout # "armed"

\* C30: no timeout timer of a sendCommand call that has settled is pending.
C30_NoLeakedTimer == ~leakedTimers

\* the records emitted so far, as positions of the trace
Emissions == {i \in 1..Len(trace.log) : trace.log[i].name = "onDataReceived"}

\* the records of the kind of record i emitted before it and since the last
\* disconnect report before it
Earlier(i) ==
  {j \in Emissions :
     /\ j < i
     /\ trace.log[j].arg = trace.log[i].arg
     /\ \A k \in (j + 1)..(i - 1) : trace.log[k].name # "onDisconnected"}

\* the records of kind k emitted since the last disconnect report
Since(k) ==
  {j \in Emissions :
     /\ trace.log[j].arg = k
     /\ \A n \in (j + 1)..Len(trace.log) : trace.log[n].name # "onDisconnected"}

Latest(S) == CHOOSE j \in S : \A n \in S : n <= j

\* C26: the timeSinceLastOne of every emitted record is null when no record
\* of its kind was emitted before it since the session was created or last
\* disconnected, and otherwise its timestamp minus that of the latest such
\* record; the cache holds, per kind, the latest record emitted since then.
C26_Dispatch ==
  /\ \A i \in Emissions :
        trace.log[i].bytes[2] =
          IF Earlier(i) = {} THEN NoNumber
          ELSE trace.log[i].bytes[1] - trace.log[Latest(Earlier(i))].bytes[1]
  /\ \A k \in ResponseDataTypes :
        cache[k] =
          IF Since(k) = {} THEN EmptyRecord
          ELSE [present |-> TRUE,
                timestamp |-> trace.log[Latest(Since(k))].bytes[1],
                timeSinceLastOne |-> trace.log[Latest(Since(k))].bytes[2]]

\* a record with a positive timeSinceLastOne was emitted, the session was
\* disconnected, and the next record of that kind has none
C26_Witness ==
  \E i, j, n \in Emissions :
    /\ i \in Earlier(j)
    /\ trace.log[j].bytes[2] > 0
    /\ j < n
    /\ trace.log[n].arg = trace.log[j].arg
    /\ Earlier(n) = {}
    /\ trace.log[n].bytes[2] = NoNumber
    /\ cache[trace.log[n].arg].timestamp = trace.log[n].bytes[1]

\* the buffer holds a segment of a type no response definition has
HasUnknownType(b) ==
  /\ BeginsWithHeader(b)
  /\ Len(b) > Len(segmentHeader)
  /\ getSegmentType(b) \notin expectedSegments

\* C25: while the buffer holds a segment of an unknown type nothing is
\* emitted; the notification that made it so left its bytes in the buffer,
\* a header-less fragment is appended to it, and a fragment that begins with
\* the segment header replaces it.
C25_UnknownType ==
  [][\A f \in Fragments \ {<<>>} :
       (\E ok \in BOOLEAN : HandleNotification(f, ok)) =>
         /\ HasUnknownType(responseBuffer') =>
              /\ emitted' = NoEmit
              /\ responseBuffer' \in {f, responseBuffer \o f}
         /\ HasUnknownType(responseBuffer) =>
              IF BeginsWithHeader(f)
              THEN \/ responseBuffer' = f
                   \/ responseBuffer' = <<>> /\ IsCompleteSegment(f)
              ELSE /\ responseBuffer' = responseBuffer \o f
                   /\ emitted' = NoEmit]_vars

\* what reset() leaves of the session
TornDown ==
  /\ status = "disconnected"
  /\ characteristic = NULL
  /\ bluetoothDevice = NULL
  /\ inactivityTimeout = NULL
  /\ responseBuffer = <<>>

\* C23: a step that begins by invoking onDisconnected(reason) starts from a
\* session that is torn down: status 'disconnected', handles null, no
\* inactivity timer, empty buffer.
C23_TornDownWhenReported ==
  [][(cb' # <<>> /\ cb'[1].name = "onDisconnected") => TornDown]_vars

\* the items of the decoded definition that have key k
Occurrences(k) == {i \in 1..Len(decoded.items) : decoded.items[i].key = k}

\* the decoded value of the i-th item
ValueAt(i) ==
  itemValue(decoded.items[i],
            slice(decoded.segment, decoded.items[i].offset, decoded.items[i].byteLength))

\* the decoded values of the items in S, in declaration order
InOrder(S) ==
  [n \in 1..Cardinality(S) |->
     ValueAt(CHOOSE i \in S : Cardinality({j \in S : j < i}) = n - 1)]

\* C22: under every key that two or more items of the definition have,
\* decode returns the sequence of the decoded values of those items, one
\* element per item, in declaration order.
C22_Coalesced ==
  decoded.done =>
    \A k \in ItemKeys :
      Cardinality(Occurrences(k)) >= 2 =>
        decoded.result[k] = Array(InOrder(Occurrences(k)))

\* C31: the response buffer is empty, or it begins with the segment header
\* and is strictly longer than the header; so it is after every handled
\* notification and after every flush.
C31_BufferShape ==
  \/ responseBuffer = <<>>
  \/ /\ BeginsWithHeader(responseBuffer)
     /\ Len(responseBuffer) > Len(segmentHeader)

\* a notification was handled in the middle of a delivery and left a
\* segment one byte short in the buffer
C31_Witness ==
  /\ ev = Ev("notify", "incomplete")
  /\ delivery.active
  /\ Len(responseBuffer) = ResponseLength - 1
  /\ BeginsWithHeader(responseBuffer)

\* C32: the status is 'connected' exactly when the characteristic handle
\* and the device handle are both set; in every other status both are null.
C32_StatusHandles ==
  IF status = "connected"
  THEN characteristic # NULL /\ bluetoothDevice # NULL
  ELSE characteristic = NULL /\ bluetoothDevice = NULL
====
